---- MODULE Spec2Model ----
(***************************************************************************)
(* structinator: the attribute macro iter_convertable (src/lib.rs) and the *)
(* create_struct function it generates.                                    *)
(*                                                                         *)
(* The model has two phases.  The first is the macro expansion: it parses  *)
(* the attribute argument and the annotated item and either panics or      *)
(* emits the item followed by the generated impl.  The second is one call  *)
(* of the generated create_struct on an iterator of NamedField values,     *)
(* executed statement by statement: the fill loop, then the struct literal *)
(* whose field expressions are evaluated in the order they were emitted.   *)
(***************************************************************************)
EXTENDS Integers, Sequences, FiniteSets, TLC

\* ---------------------------------------------------------------- bounds
\* Largest number of fields of an annotated struct; also the largest number
\* of items an iterator holds.
MaxFields == 3

\* ---------------------------------------------------------------- domains
\* Identifiers a struct definition may use for its fields, in the order the
\* modelled definitions declare them.
NameList == <<"x", "y", "z", "w", "v">>

\* Names an iterator item may carry.
InputNames == {"x", "y", "z"}

\* Field types, and the variants of the InnerIteratorType enum wrapping them.
Types == {"i32", "str"}

\* Payloads carried inside a variant.
Payloads == {1, 2}

Min(a, b) == IF a < b THEN a ELSE b

\* Field types of the modelled struct definitions, in declaration order:
\* neighbours of one type and neighbours of different types both occur.
TypeLists == { <<"i32", "i32", "str", "str", "i32">>,
               <<"str", "i32", "i32", "str", "str">> }

\* The Punctuated field lists of the modelled struct definitions: the first
\* n names, typed by the first n types of a type list.  A syn::Field is an
\* identifier token and a type.
FieldLists ==
    { [i \in 1..n |-> [ident |-> [sym |-> NameList[i]], ty |-> tl[i]]] :
        n \in 0..Min(MaxFields, Len(NameList)), tl \in TypeLists }

\* What the attribute can be attached to.
ItemShapes == {"struct_named", "struct_tuple", "struct_unit", "enum", "fn"}

Items ==
    { [shape |-> "struct_named", fields |-> fl] : fl \in FieldLists }
    \cup { [shape |-> s, fields |-> <<>>] : s \in ItemShapes \ {"struct_named"} }

\* What the attribute's argument tokens can be.
ArgKinds == {"type", "not_a_type", "empty"}

\* A value of InnerIteratorType.
Wrapped == [tag : Types, payload : Payloads]

\* structinator_traits::NamedField<InnerIteratorType>.
NamedField == [name : InputNames, wrapped_value : Wrapped]

\* The iterators handed to create_struct.
Iterators == UNION { [1..n -> NamedField] : n \in 0..MaxFields }

\* ---------------------------------------------------------------- messages
MsgBadArg == "Pass in the name of the enum that contains the values to be assigned to this structure."
MsgNotStruct == "This attribute should only be attached to a struct definition"
MsgNotNamed == "This library can only convert from iterator to structs with named fields"
MsgTooFew == "The given iterator should contain enough values to fill the implementing structure"
MsgMissing == "The iterator passed to the create_struct function should yield values for every field in the base struct"
MsgConvert == "The variant of InnerIteratorType passed to TryFrom should always succeed in conversion, but it failed unexpectedly"

\* ---------------------------------------------------------------- state
VARIABLES
    user_enum,       \* the attribute's argument
    user_structure,  \* the annotated item
    emitted,         \* the macro's output: <<>> or <<item, impl>>
    gen_panic,       \* message of the macro's panic, "" when none
    pc,              \* position: macro expansion, then inside create_struct
    seed_input,      \* the iterator's items when create_struct was called
    seed_iterator,   \* the items the iterator has not yielded yet
    pulls,           \* number of calls of seed_iterator.next()
    value_storage,   \* the HashMap
    looper,          \* the loop counter
    fidx,            \* index of the field expression being evaluated
    taken,           \* value removed for the current field, not yet converted
    built,           \* field values of the struct literal evaluated so far
    result,          \* how create_struct ended
    log,             \* the lookups and conversions performed, in order
    first            \* the previous call's input and result

vars == <<user_enum, user_structure, emitted, gen_panic, pc, seed_input,
          seed_iterator, pulls, value_storage, looper, fidx, taken, built,
          result, log, first>>

EmptyMap == [k \in {} |-> 0]

NoValue == <<>>

NoResult == [kind |-> "none", msg |-> "", value |-> EmptyMap]
ResOk(rec) == [kind |-> "Ok", msg |-> "", value |-> rec]
ResErr(m) == [kind |-> "Err", msg |-> m, value |-> EmptyMap]
ResPanic(m) == [kind |-> "panic", msg |-> m, value |-> EmptyMap]

NoFirst == [set |-> FALSE, input |-> <<>>, result |-> NoResult]

\* ---------------------------------------------------------------- macro
\* syn::parse::<syn::Type>(user_enum) is Ok
ParsesAsType(arg) == arg = "type"

\* syn::parse::<syn::ItemStruct>(user_structure) is Ok
ParsesAsItemStruct(item) ==
    item.shape \in {"struct_named", "struct_tuple", "struct_unit"}

\* Mutant: the Unnamed arm is accepted as well.
HasNamedOrTupleFields(item) == item.shape \in {"struct_named", "struct_tuple"}

\* the match on base_structure.fields takes the Named arm
HasNamedFields(item) == item.shape = "struct_named"

\* Ident::to_string
to_string(ident) == ident.sym

\* fields.len()
fields_length_of(fields) == Len(fields)

\* Mutant: the lookup key is the stringified type instead of the identifier.
field_maker_keyed_by_type(field) ==
    [member |-> field.ident,
     name_string |-> field.ty,
     field_type |-> field.ty]

\* The FieldValue emitted for one field: member, lookup key, target type.
field_maker(field) ==
    [member |-> field.ident,
     name_string |-> to_string(field.ident),
     field_type |-> field.ty]

\* Mutant: the field expressions are emitted in reverse order.
fields_iterator_reversed(fields) ==
    [i \in 1..Len(fields) |-> field_maker(fields[Len(fields) + 1 - i])]

\* fields.iter().map(field_maker), spliced into the struct literal in order
fields_iterator(fields) == [i \in 1..Len(fields) |-> field_maker(fields[i])]

\* The macro's outcome for an argument and an item: a panic message, or the
\* emitted item followed by the generated impl.
Expand(arg, item) ==
    IF ~ParsesAsType(arg) THEN [panic |-> MsgBadArg, out |-> <<>>]
    ELSE IF ~ParsesAsItemStruct(item) THEN [panic |-> MsgNotStruct, out |-> <<>>]
    ELSE IF ~HasNamedFields(item) THEN [panic |-> MsgNotNamed, out |-> <<>>]
    ELSE [panic |-> "",
          out |-> << item,
                     [InnerIteratorType |-> arg,
                      fields_length |-> fields_length_of(item.fields),
                      field_values |-> fields_iterator(item.fields)] >>]

\* ---------------------------------------------------------------- runtime
\* The generated impl, and the constants baked into it.
Impl == emitted[2]
FieldsLength == Impl.fields_length
FieldValues == Impl.field_values

\* Mutant: an entry already stored under the key is kept.
InsertIfAbsent(store, key, value) ==
    [k \in (DOMAIN store) \cup {key} |->
        IF k \in DOMAIN store THEN store[k] ELSE value]

\* HashMap::insert: the new value replaces one already stored under the key
Insert(store, key, value) ==
    [k \in (DOMAIN store) \cup {key} |-> IF k = key THEN value ELSE store[k]]

\* HashMap::remove returned Some
Contains(store, key) == key \in DOMAIN store

\* Mutant: the entry is read and left in the map.
RemoveKeepsEntry(store, key) == store

\* the map after HashMap::remove
Remove(store, key) == [k \in (DOMAIN store) \ {key} |-> store[k]]

\* <field_type as TryFrom<InnerIteratorType>>::try_from is Ok: the variant
\* is the one wrapping field_type
TryFromOk(field_type, wrapped) == wrapped.tag = field_type

\* the unwrapped value
TryFromValue(field_type, wrapped) == <<field_type, wrapped.payload>>

\* The field whose expression is evaluated next.
CurField == FieldValues[fidx]

\* Mutant: the key is the name of the field at the pair's position.
InsertKeyPositional(next_value_pair) == NameList[looper + 1]

\* the key of value_storage.insert: the name the pulled pair carries
InsertKey(next_value_pair) == next_value_pair.name

\* Mutant: the loop runs once more.
LoopCondInclusive == looper <= FieldsLength

\* Mutant: the loop runs until the map holds an entry per field.
LoopCondUntilFull == Cardinality(DOMAIN value_storage) < FieldsLength

\* the condition of the while loop
LoopCond == looper < FieldsLength

\* Mutant: the loop is left with break and the struct literal is evaluated.
ExhaustedBreak ==
    /\ result' = result
    /\ pc' = "remove"

\* the else branch of the if let: the early return of the Err
Exhausted ==
    /\ result' = ResErr(MsgTooFew)
    /\ pc' = "returned"

\* Mutant: the missing name is reported through the return value.
MissingAsErr == [result |-> ResErr(MsgMissing), pc |-> "returned"]

\* what expect does when remove returned None
MissingOutcome == [result |-> ResPanic(MsgMissing), pc |-> "panicked"]

\* what expect does when try_from returned Err
ConvertOutcome == [result |-> ResPanic(MsgConvert), pc |-> "panicked"]

Init ==
    /\ user_enum \in ArgKinds
    /\ user_structure \in Items
    /\ emitted = <<>>
    /\ gen_panic = ""
    /\ pc = "expand"
    /\ seed_input = <<>>
    /\ seed_iterator = <<>>
    /\ pulls = 0
    /\ value_storage = EmptyMap
    /\ looper = 0
    /\ fidx = 1
    /\ taken = NoValue
    /\ built = EmptyMap
    /\ result = NoResult
    /\ log = <<>>
    /\ first = NoFirst

\* iter_convertable(user_enum, user_structure)
Generate ==
    /\ pc = "expand"
    /\ LET e == Expand(user_enum, user_structure) IN
        /\ gen_panic' = e.panic
        /\ emitted' = e.out
        /\ pc' = IF e.panic = "" THEN "emitted" ELSE "gen_panic"
    /\ UNCHANGED <<user_enum, user_structure, seed_input, seed_iterator, pulls,
                   value_storage, looper, fidx, taken, built, result, log, first>>

\* The state create_struct starts in on the iterator items.
Enter(items) ==
    /\ pc' = "loop"
    /\ seed_input' = items
    /\ seed_iterator' = items
    /\ pulls' = 0
    /\ value_storage' = EmptyMap
    /\ looper' = 0
    /\ fidx' = 1
    /\ taken' = NoValue
    /\ built' = EmptyMap
    /\ result' = NoResult
    /\ log' = <<>>

\* A caller calls create_struct(seed_iterator).
Invoke ==
    /\ pc = "emitted"
    /\ \E items \in Iterators : Enter(items)
    /\ UNCHANGED <<user_enum, user_structure, emitted, gen_panic, first>>

\* One iteration of the while loop: next(), then the early return or the
\* insert and the increment.
LoopStep ==
    /\ pc = "loop"
    /\ LoopCond
    /\ pulls' = pulls + 1
    /\ IF seed_iterator = <<>>
       THEN /\ Exhausted
            /\ UNCHANGED <<seed_iterator, value_storage, looper>>
       ELSE LET next_value_pair == Head(seed_iterator) IN
            /\ seed_iterator' = Tail(seed_iterator)
            /\ value_storage' = Insert(value_storage, InsertKey(next_value_pair),
                                       next_value_pair.wrapped_value)
            /\ looper' = looper + 1
            /\ UNCHANGED <<result, pc>>
    /\ UNCHANGED <<user_enum, user_structure, emitted, gen_panic, seed_input,
                   fidx, taken, built, log, first>>

\* The loop condition fails: control reaches the struct literal.
LoopExit ==
    /\ pc = "loop"
    /\ ~LoopCond
    /\ pc' = "remove"
    /\ UNCHANGED <<user_enum, user_structure, emitted, gen_panic, seed_input,
                   seed_iterator, pulls, value_storage, looper, fidx, taken,
                   built, result, log, first>>

\* value_storage.remove(name_string).expect(..) of the current field
FieldRemove ==
    /\ pc = "remove"
    /\ fidx <= Len(FieldValues)
    /\ log' = Append(log, <<"remove", CurField.name_string>>)
    /\ IF Contains(value_storage, CurField.name_string)
       THEN /\ taken' = value_storage[CurField.name_string]
            /\ value_storage' = Remove(value_storage, CurField.name_string)
            /\ pc' = "convert"
            /\ UNCHANGED result
       ELSE /\ result' = MissingOutcome.result
            /\ pc' = MissingOutcome.pc
            /\ UNCHANGED <<taken, value_storage>>
    /\ UNCHANGED <<user_enum, user_structure, emitted, gen_panic, seed_input,
                   seed_iterator, pulls, looper, fidx, built, first>>

\* try_from(..).expect(..) of the current field
FieldConvert ==
    /\ pc = "convert"
    /\ log' = Append(log, <<"convert", CurField.name_string>>)
    /\ IF TryFromOk(CurField.field_type, taken)
       THEN /\ built' = Insert(built, to_string(CurField.member),
                               TryFromValue(CurField.field_type, taken))
            /\ fidx' = fidx + 1
            /\ pc' = "remove"
            /\ UNCHANGED result
       ELSE /\ result' = ConvertOutcome.result
            /\ pc' = ConvertOutcome.pc
            /\ UNCHANGED <<built, fidx>>
    /\ taken' = NoValue
    /\ UNCHANGED <<user_enum, user_structure, emitted, gen_panic, seed_input,
                   seed_iterator, pulls, value_storage, looper, first>>

\* Ok(Struct { .. }) once every field expression has been evaluated
ReturnOk ==
    /\ pc = "remove"
    /\ fidx > Len(FieldValues)
    /\ result' = ResOk(built)
    /\ pc' = "returned"
    /\ UNCHANGED <<user_enum, user_structure, emitted, gen_panic, seed_input,
                   seed_iterator, pulls, value_storage, looper, fidx, taken,
                   built, log, first>>

\* The permutations of 1..n.
PermutationsOf(n) ==
    { p \in [1..n -> 1..n] : \A i, j \in 1..n : p[i] = p[j] => i = j }

\* The first n items carry n distinct names, those of the n emitted fields.
NamesMatch(items, n) ==
    /\ Len(items) >= n
    /\ \A i, j \in 1..n : items[i].name = items[j].name => i = j
    /\ {items[i].name : i \in 1..n} = {FieldValues[i].name_string : i \in 1..n}

\* After a call whose first N items name the N fields has ended, the caller
\* calls create_struct again on the same items with the first N of them in
\* another order.
InvokePermuted ==
    /\ pc \in {"returned", "panicked"}
    /\ ~first.set
    /\ NamesMatch(seed_input, FieldsLength)
    /\ first' = [set |-> TRUE, input |-> seed_input, result |-> result]
    /\ \E p \in PermutationsOf(FieldsLength) :
         Enter([i \in 1..Len(seed_input) |->
                  IF i <= FieldsLength THEN seed_input[p[i]] ELSE seed_input[i]])
    /\ UNCHANGED <<user_enum, user_structure, emitted, gen_panic>>

Next ==
    \/ Generate
    \/ Invoke
    \/ LoopStep
    \/ LoopExit
    \/ FieldRemove
    \/ FieldConvert
    \/ ReturnOk

Spec == Init /\ [][Next]_vars

\* The calls of Spec, each possibly followed by a second call on permuted items.
NextPerm ==
    \/ Next
    \/ InvokePermuted

SpecPerm == Init /\ [][NextPerm]_vars

\* ---------------------------------------------------------------- claims
\* The annotated struct as its definition declares it.
DeclN == Len(user_structure.fields)
DeclName(i) == user_structure.fields[i].ident.sym
DeclType(i) == user_structure.fields[i].ty
DeclNames == {DeclName(i) : i \in 1..DeclN}
DeclIndex(name) == CHOOSE i \in 1..DeclN : DeclName(i) = name

InCall == pc \in {"loop", "remove", "convert", "returned", "panicked"}
Ended == pc \in {"returned", "panicked"}

\* The iterator held enough items to fill the struct.
Enough == Len(seed_input) >= DeclN

\* Two of the first k items of the input carry the same name.
HasDup(k) == \E i, j \in 1..k : i < j /\ seed_input[i].name = seed_input[j].name

\* Some of the first k items of the input carries the name.
Supplied(name, k) == \E i \in 1..k : seed_input[i].name = name

\* The last of the first k items of the input that carries the name.
LastOf(name, k) ==
    seed_input[CHOOSE i \in 1..k :
                  /\ seed_input[i].name = name
                  /\ \A j \in (i + 1)..k : seed_input[j].name # name]

\* The value a field of the given index holds after direct assignment of the
\* wrapped value.
Assigned(i, wrapped) == <<DeclType(i), wrapped.payload>>

\* Every item of the input names a field and wraps that field's type.
AllCorrect ==
    \A i \in 1..Len(seed_input) :
        /\ seed_input[i].name \in DeclNames
        /\ seed_input[i].wrapped_value.tag = DeclType(DeclIndex(seed_input[i].name))

\* The struct built by direct assignment from the first DeclN items, by name.
DirectStruct ==
    [f \in DeclNames |-> Assigned(DeclIndex(f), LastOf(f, DeclN).wrapped_value)]

\* C1 as stated: for every input of at least N correctly-named,
\* correctly-typed values, create_struct returns Ok with every field equal to
\* the conversion of a value supplied under that field's name.
C1_AsStated ==
    (Ended /\ Enough /\ AllCorrect) =>
        /\ result.kind = "Ok"
        /\ \A f \in DeclNames :
             \E i \in 1..Len(seed_input) :
                 /\ seed_input[i].name = f
                 /\ result.value[f] = Assigned(DeclIndex(f), seed_input[i].wrapped_value)

\* C1 amended: for every input of at least N correctly-named, correctly-typed
\* values whose first N items carry pairwise distinct names, create_struct
\* returns Ok with the struct built by direct assignment from the first N
\* values keyed by name.
C1_DirectAssignment ==
    (Ended /\ Enough /\ AllCorrect /\ ~HasDup(DeclN)) =>
        result = ResOk(DirectStruct)

C1_Witness ==
    /\ Ended /\ Enough /\ AllCorrect /\ ~HasDup(DeclN)
    /\ DeclN >= 2
    /\ Len(seed_input) > DeclN
    /\ seed_input[1].name # DeclName(1)
    /\ result.kind = "Ok"

\* C2: on an input of fewer than N items, whatever it carries, create_struct
\* never evaluates a field expression, builds nothing, raises no fault and
\* ends by returning the insufficient-data Err.
C2_TooFewIsErr ==
    (InCall /\ ~Enough) =>
        /\ pc \in {"loop", "returned"}
        /\ built = EmptyMap
        /\ log = <<>>
        /\ result.kind \in {"none", "Err"}
        /\ Ended => result = ResErr(MsgTooFew)

C2_Witness ==
    /\ Ended /\ ~Enough
    /\ Len(seed_input) >= 2
    /\ HasDup(Len(seed_input))
    /\ result = ResErr(MsgTooFew)

\* C3: next() is called at most N times; the iterator always holds exactly
\* the items not yet yielded; and when the input holds at least N items the
\* call ends, in success or in a fault, after exactly N calls of next() with
\* every item beyond the first N still in the iterator.
C3_PullsExactlyN ==
    InCall =>
        /\ pulls <= DeclN
        /\ Len(seed_iterator) <= Len(seed_input)
        /\ seed_iterator = SubSeq(seed_input,
                                  Len(seed_input) - Len(seed_iterator) + 1,
                                  Len(seed_input))
        /\ Len(seed_input) - Len(seed_iterator) <= pulls
        /\ (Enough /\ pc # "loop") =>
              /\ pulls = DeclN
              /\ seed_iterator = SubSeq(seed_input, DeclN + 1, Len(seed_input))

C3_Witness ==
    /\ pc = "panicked"
    /\ DeclN >= 1
    /\ Len(seed_input) > DeclN
    /\ pulls = DeclN
    /\ seed_iterator = SubSeq(seed_input, DeclN + 1, Len(seed_input))

\* C4: when a call on N pairs whose names are the N field names is followed
\* by a call on the same pairs in another order, the second call ends as the
\* first did: with an identical struct, or with the same fault.
C4_OrderIrrelevant ==
    (first.set /\ Ended) => result = first.result

C4_Witness ==
    /\ first.set /\ Ended
    /\ DeclN >= 3
    /\ \A i \in 1..DeclN : seed_input[i] # first.input[i]
    /\ result.kind = "Ok"

Absent(i) == ~Supplied(DeclName(i), DeclN)
Mismatch(i) ==
    /\ Supplied(DeclName(i), DeclN)
    /\ LastOf(DeclName(i), DeclN).wrapped_value.tag # DeclType(i)
Bad(i) == Absent(i) \/ Mismatch(i)
FirstBad ==
    IF \E i \in 1..DeclN : Bad(i)
    THEN CHOOSE i \in 1..DeclN : Bad(i) /\ \A j \in 1..(i - 1) : ~Bad(j)
    ELSE 0

\* C7: a call ends in exactly one of four ways: Ok, the insufficient-data
\* Err, the missing-name panic, the failed-conversion panic.  The Err is
\* returned exactly when the iterator ran out before N items; a missing name
\* and a failed conversion are panics and never reach the return value; and
\* a call that has not ended can take its next step.
C7_OutcomeTaxonomy ==
    InCall =>
        /\ ~Ended => (result = NoResult /\ ENABLED Next)
        /\ pc = "returned" =>
              \/ result.kind = "Ok"
              \/ result = ResErr(MsgTooFew)
        /\ pc = "panicked" =>
              \/ result = ResPanic(MsgMissing)
              \/ result = ResPanic(MsgConvert)
        /\ Ended => (result.kind = "Err" <=> ~Enough)
        /\ (Ended /\ Enough) => (result.kind = "panic" <=> FirstBad # 0)
        /\ (Ended /\ Enough) => (result.kind = "Ok" <=> FirstBad = 0)

C7_Witness ==
    /\ pc = "panicked"
    /\ result = ResPanic(MsgConvert)
    /\ FirstBad = DeclN
    /\ DeclN >= 2

\* C8: the macro emits output exactly when the argument parses as a type and
\* the item is a struct with named fields, and the output is then the item
\* followed by the generated impl; in every other case it panics and emits
\* nothing.
C8_EmitsIffNamedStruct ==
    /\ pc = "expand" => (emitted = <<>> /\ gen_panic = "")
    /\ pc # "expand" =>
          /\ emitted # <<>> <=> (user_enum = "type" /\ user_structure.shape = "struct_named")
          /\ emitted # <<>> <=> gen_panic = ""
          /\ emitted = <<>> <=> pc = "gen_panic"
          /\ emitted # <<>> =>
                /\ Len(emitted) = 2
                /\ emitted[1] = user_structure
                /\ emitted[2].InnerIteratorType = user_enum
          /\ (user_enum = "type" /\ user_structure.shape = "struct_tuple")
                => gen_panic = MsgNotNamed

C8_Witness ==
    /\ pc = "gen_panic"
    /\ user_enum = "type"
    /\ user_structure.shape = "struct_tuple"
    /\ emitted = <<>>

\* The lookups and conversions of the first k fields in declaration order:
\* remove then convert of the first field, then of the second, and so on.
ExpectedEvent(j) ==
    <<IF j % 2 = 1 THEN "remove" ELSE "convert", DeclName((j + 1) \div 2)>>

\* C9: after the loop the fields are handled strictly in declaration order,
\* the removal of a field before its conversion and both before anything of
\* the next field; a fault is the fault of the first field, in declaration
\* order, that is absent or fails to convert (missing-name if absent,
\* failed-conversion otherwise), and no later field is looked up or converted.
C9_DeclarationOrder ==
    (InCall /\ pc # "loop") =>
        /\ \A j \in 1..Len(log) : log[j] = ExpectedEvent(j)
        /\ Len(log) = 2 * (fidx - 1) + (IF pc = "convert" THEN 1 ELSE 0)
                      + (IF pc = "panicked"
                         THEN (IF result.msg = MsgMissing THEN 1 ELSE 2) ELSE 0)
        /\ DOMAIN built = {DeclName(i) : i \in 1..(fidx - 1)}
        /\ pc = "panicked" =>
              /\ fidx = FirstBad
              /\ result.msg = (IF Absent(fidx) THEN MsgMissing ELSE MsgConvert)
              /\ \A i \in (fidx + 1)..DeclN :
                     Supplied(DeclName(i), DeclN) => DeclName(i) \in DOMAIN value_storage

C9_Witness ==
    /\ pc = "panicked"
    /\ DeclN >= 3
    /\ FirstBad = 2
    /\ Mismatch(2)
    /\ Bad(3)
    /\ result = ResPanic(MsgConvert)

\* C10: create_struct returns Ok only if the first N items carry pairwise
\* distinct names, those names are exactly the field names and every
\* conversion succeeds; the store is then empty when the call returns.
C10_OkOnlyIfExactNames ==
    (Ended /\ result.kind = "Ok") =>
        /\ Enough
        /\ ~HasDup(DeclN)
        /\ {seed_input[i].name : i \in 1..DeclN} = DeclNames
        /\ \A i \in 1..DeclN :
               LastOf(DeclName(i), DeclN).wrapped_value.tag = DeclType(i)
        /\ value_storage = EmptyMap
        /\ taken = NoValue

C10_Witness ==
    /\ Ended /\ result.kind = "Ok"
    /\ DeclN >= 3
    /\ Len(seed_input) = DeclN
    /\ value_storage = EmptyMap

====
